---- MODULE Spec2Model ----
(***************************************************************************)
(* Measurement error mitigation (content/ch-quantum-hardware/              *)
(* measurement-error-mitigation.ipynb): the calibration matrix built from  *)
(* basis-state counts, and the correction of noisy counts with it.         *)
(*                                                                         *)
(* Arithmetic is exact: a real number is a fraction of two integers of     *)
(* arbitrary size (the notebook computes in binary floating point, whose   *)
(* rounding residue, such as the 1.4e-14 of cell 8, is outside the model). *)
(***************************************************************************)
EXTENDS Integers, Sequences, FiniteSets, TLC

(***************************************************************************)
(* Integers wider than TLC's 32-bit integers.  A magnitude is a            *)
(* little-endian sequence of limbs in base 10000 without trailing zero     *)
(* limb; a wide integer is a sign and a magnitude.                         *)
(***************************************************************************)
\* the limb of a at position i, zero beyond its length
Limb(a, i) == IF i <= Len(a) THEN a[i] ELSE 0

\* a without the zero limbs at its high end
MagStrip(a) ==
  SubSeq(a, 1, CHOOSE n \in 0..Len(a) :
                 (n = 0 \/ a[n] # 0) /\ \A j \in (n + 1)..Len(a) : a[j] = 0)

\* the limbs of the number whose limb sums are s (each below 20000), plus a
\* carry of 0 or 1: a limb receives a carry when a lower limb sum reaches
\* 10000, or the carry comes in, and every limb sum in between is 9999
Carried(s, carry) ==
  SubSeq([i \in 1..Len(s) |->
            (s[i] + (IF \/ \E j \in 1..(i - 1) :
                             s[j] >= 10000 /\ \A k \in (j + 1)..(i - 1) : s[k] = 9999
                        \/ carry = 1 /\ \A k \in 1..(i - 1) : s[k] = 9999
                     THEN 1 ELSE 0)) % 10000],
         1, Len(s))

\* the limb sums of a + b, or of a plus the complement of b to 9999...9
LimbSums(a, b, n, complement) ==
  SubSeq([i \in 1..n |-> Limb(a, i) + (IF complement THEN 9999 - Limb(b, i) ELSE Limb(b, i))],
         1, n)

\* a + b + carry
MagAddC(a, b, carry) ==
  MagStrip(Carried(LimbSums(a, b, (IF Len(a) > Len(b) THEN Len(a) ELSE Len(b)) + 1, FALSE),
                   carry))

\* the Len(a) low limbs of a - b - borrow for a >= b + borrow: a plus the
\* complement of b, plus one unless there is a borrow
MagSubB(a, b, borrow) == Carried(LimbSums(a, b, Len(a), TRUE), 1 - borrow)

MagCmp(a, b) ==
  IF Len(a) > Len(b) THEN 1
  ELSE IF Len(a) < Len(b) THEN -1
  ELSE LET diff == {i \in 1..Len(a) : a[i] # b[i]}
       IN IF diff = {} THEN 0
          ELSE LET top == CHOOSE i \in diff : \A j \in diff : j <= i
               IN IF a[top] > b[top] THEN 1 ELSE -1

RECURSIVE SumRange(_, _, _)
SumRange(v, lo, hi) ==
  IF lo > hi THEN 0
  ELSE IF lo = hi THEN v[lo]
  ELSE SumRange(v, lo, (lo + hi) \div 2) + SumRange(v, (lo + hi) \div 2 + 1, hi)

\* the share of the limb a[i] in column k of a * b: the low limb of its
\* product in column k and the high limb of its product in column k - 1
MagTerm(a, b, i, k) ==
  (IF k + 1 - i >= 1 /\ k + 1 - i <= Len(b) THEN (a[i] * b[k + 1 - i]) % 10000 ELSE 0)
    + (IF k - i >= 1 /\ k - i <= Len(b) THEN (a[i] * b[k - i]) \div 10000 ELSE 0)

\* the column sums of a * b
MagColumns(a, b) ==
  SubSeq([k \in 1..(Len(a) + Len(b)) |->
            SumRange(SubSeq([i \in 1..Len(a) |-> MagTerm(a, b, i, k)], 1, Len(a)),
                     1, Len(a))],
         1, Len(a) + Len(b))

\* the limb sums of the number whose column sums are v
MagSplit(v) ==
  SubSeq([k \in 1..Len(v) |-> (v[k] % 10000) + (IF k > 1 THEN v[k - 1] \div 10000 ELSE 0)],
         1, Len(v))

MagMul(a, b) ==
  IF a = <<>> \/ b = <<>> THEN <<>>
  ELSE MagStrip(Carried(MagSplit(MagColumns(a, b)), 0))

RECURSIVE MagOfNat(_)
MagOfNat(k) == IF k = 0 THEN <<>> ELSE <<k % 10000>> \o MagOfNat(k \div 10000)

W(k) == [s |-> IF k > 0 THEN 1 ELSE IF k < 0 THEN -1 ELSE 0,
         m |-> MagOfNat(IF k < 0 THEN -k ELSE k)]

WNeg(a) == [s |-> -a.s, m |-> a.m]

WAdd(a, b) ==
  IF a.s = 0 THEN b
  ELSE IF b.s = 0 THEN a
  ELSE IF a.s = b.s THEN [s |-> a.s, m |-> MagAddC(a.m, b.m, 0)]
  ELSE LET c == MagCmp(a.m, b.m)
       IN IF c = 0 THEN [s |-> 0, m |-> <<>>]
          ELSE IF c > 0 THEN [s |-> a.s, m |-> MagStrip(MagSubB(a.m, b.m, 0))]
          ELSE [s |-> b.s, m |-> MagStrip(MagSubB(b.m, a.m, 0))]

WSub(a, b) == WAdd(a, WNeg(b))

WMul(a, b) == [s |-> a.s * b.s, m |-> MagMul(a.m, b.m)]

WCmp(a, b) == WSub(a, b).s

(***************************************************************************)
(* Real numbers: fractions n/d of wide integers with d > 0 (not reduced to  *)
(* lowest terms; FEq and FCmp compare by cross-multiplication).            *)
(***************************************************************************)
F(k, d) == [n |-> W(k), d |-> W(d)]

\* the same fraction without the powers of 10000 common to n and d
RECURSIVE FStrip(_)
FStrip(a) ==
  IF a.n.s = 0 THEN [n |-> a.n, d |-> W(1)]
  ELSE IF Len(a.n.m) > 1 /\ Len(a.d.m) > 1 /\ a.n.m[1] = 0 /\ a.d.m[1] = 0
  THEN FStrip([n |-> [s |-> a.n.s, m |-> Tail(a.n.m)],
               d |-> [s |-> a.d.s, m |-> Tail(a.d.m)]])
  ELSE a

FAdd(a, b) ==
  IF a.n.s = 0 THEN b
  ELSE IF b.n.s = 0 THEN a
  ELSE IF a.d = b.d THEN [n |-> WAdd(a.n, b.n), d |-> a.d]
  ELSE FStrip([n |-> WAdd(WMul(a.n, b.d), WMul(b.n, a.d)), d |-> WMul(a.d, b.d)])

FNeg(a) == [n |-> WNeg(a.n), d |-> a.d]

FSub(a, b) == FAdd(a, FNeg(b))

FMul(a, b) ==
  IF a.n.s = 0 THEN a
  ELSE IF b.n.s = 0 THEN b
  ELSE FStrip([n |-> WMul(a.n, b.n), d |-> WMul(a.d, b.d)])

\* a / b for b # 0
FDiv(a, b) ==
  IF b.n.s > 0 THEN FStrip([n |-> WMul(a.n, b.d), d |-> WMul(a.d, b.n)])
  ELSE FStrip([n |-> WNeg(WMul(a.n, b.d)), d |-> WNeg(WMul(a.d, b.n))])

FCmp(a, b) == WCmp(WMul(a.n, b.d), WMul(b.n, a.d))

FEq(a, b) == FCmp(a, b) = 0

FLe(a, b) == FCmp(a, b) <= 0

FSign(a) == a.n.s

RECURSIVE FSum(_)
FSum(v) == IF v = <<>> THEN F(0, 1)
           ELSE IF Len(v) = 1 THEN v[1]
           ELSE FAdd(FSum(SubSeq(v, 1, Len(v) - 1)), v[Len(v)])

VecEq(u, v) == Len(u) = Len(v) /\ \A i \in 1..Len(u) : FEq(u[i], v[i])

MatEq(A, B) == Len(A) = Len(B) /\ \A i \in 1..Len(A) : VecEq(A[i], B[i])

IntVec(v) == [i \in 1..Len(v) |-> F(v[i], 1)]

(***************************************************************************)
(* Rounding to an integer, as Python's round and numpy's around do it:     *)
(* to the nearest integer, a tie going to the even neighbour.              *)
(***************************************************************************)
FAbs(a) == IF a.n.s < 0 THEN FNeg(a) ELSE a

RECURSIVE UpperBound(_, _)
UpperBound(x, k) == IF FCmp(FAbs(x), F(k, 1)) < 0 THEN k ELSE UpperBound(x, 2 * k)

\* the integer q with q <= x < q + 1, given lo <= x < hi
RECURSIVE FloorBetween(_, _, _)
FloorBetween(x, lo, hi) ==
  IF hi = lo + 1 THEN lo
  ELSE LET mid == (lo + hi) \div 2
       IN IF FCmp(x, F(mid, 1)) >= 0 THEN FloorBetween(x, mid, hi)
          ELSE FloorBetween(x, lo, mid)

Floor(x) == LET k == UpperBound(x, 1) IN FloorBetween(x, -k, k)

\* a conversion that drops the fraction, as int() does
RoundTowardZero(x) == IF x.n.s < 0 THEN -Floor(FAbs(x)) ELSE Floor(x)

\* round(x), numpy.around(x)
Round(x) ==
  LET q == Floor(x)
      c == FCmp(FMul(F(2, 1), FSub(x, F(q, 1))), F(1, 1))
  IN IF c < 0 THEN q
     ELSE IF c > 0 THEN q + 1
     ELSE IF q % 2 = 0 THEN q ELSE q + 1

RoundVector(v) == [i \in 1..Len(v) |-> Round(v[i])]

(***************************************************************************)
(* Outcome labels and count dictionaries.  A label is a bit string, here a *)
(* sequence of bits ('10' is <<1, 0>>); a counts dictionary is a function  *)
(* from the labels that occurred to their counts.                          *)
(***************************************************************************)
NumQubits == 2

Shots == 10000

RECURSIVE Pow2(_)
Pow2(n) == IF n = 0 THEN 1 ELSE 2 * Pow2(n - 1)

Labels(n) == [1..n -> {0, 1}]

\* int(label, 2): the position of a label in the standard binary enumeration
RECURSIVE LabelIndex(_)
LabelIndex(l) ==
  IF Len(l) = 0 THEN 0
  ELSE 2 * LabelIndex(SubSeq(l, 1, Len(l) - 1)) + l[Len(l)]

LabelOf(i, n) == CHOOSE l \in Labels(n) : LabelIndex(l) = i

RECURSIVE SumCounts(_)
SumCounts(counts) ==
  IF DOMAIN counts = {} THEN 0
  ELSE LET l == CHOOSE k \in DOMAIN counts : TRUE
       IN counts[l] + SumCounts([k \in DOMAIN counts \ {l} |-> counts[k]])

\* a vector that lists the labels from '11..1' down to '00..0'
CountsVectorReversed(counts, n) ==
  [i \in 1..Pow2(n) |->
     LET l == LabelOf(Pow2(n) - i, n)
     IN IF l \in DOMAIN counts THEN counts[l] ELSE 0]

\* a counts dictionary as a column vector: element i + 1 is the count of the
\* label whose binary value is i, and 0 when the dictionary has no such key
CountsVector(counts, n) ==
  [i \in 1..Pow2(n) |->
     LET l == LabelOf(i - 1, n)
     IN IF l \in DOMAIN counts THEN counts[l] ELSE 0]

(***************************************************************************)
(* The calibration matrix: column j is the counts dictionary obtained for  *)
(* the prepared basis state j, normalised so that its elements sum to one. *)
(***************************************************************************)
\* a matrix with the dictionary of the prepared state i as its row i
CalMatrixByRow(cal, n) ==
  [i \in 1..Pow2(n) |-> [j \in 1..Pow2(n) |->
     F(CountsVector(cal[LabelOf(i - 1, n)], n)[j],
       SumCounts(cal[LabelOf(i - 1, n)]))]]

\* M[i][j]: the share of the outcome i in the counts of the prepared state j
CalMatrix(cal, n) ==
  [i \in 1..Pow2(n) |-> [j \in 1..Pow2(n) |->
     F(CountsVector(cal[LabelOf(j - 1, n)], n)[i],
       SumCounts(cal[LabelOf(j - 1, n)]))]]

(***************************************************************************)
(* numpy.dot and scipy.linalg.inv on lists of rows.  A call either returns *)
(* a value or raises; the raised exception is named as the error taxonomy  *)
(* names it: numpy's ValueError (shapes not aligned) is DimensionMismatch,  *)
(* scipy's LinAlgError (singular matrix) is SingularMatrix.                *)
(***************************************************************************)
Ok(v) == [status |-> "ok", value |-> v]

Raise(e) == [status |-> e, value |-> <<>>]

NumRows(A) == Len(A)

NumCols(A) == IF Len(A) = 0 THEN 0 ELSE Len(A[1])

Column(A, j) == [i \in 1..NumRows(A) |-> A[i][j]]

\* a product that takes the elements it finds, whatever the shapes
DotUnchecked(A, v) ==
  Ok([i \in 1..NumRows(A) |->
        FSum([j \in 1..Len(v) |->
                FMul(IF j <= NumCols(A) THEN A[i][j] ELSE F(0, 1), v[j])])])

\* np.dot(A, v) for a matrix A and a column vector v
Dot(A, v) ==
  IF Len(v) # NumCols(A) THEN Raise("DimensionMismatch")
  ELSE Ok([i \in 1..NumRows(A) |->
             FSum([j \in 1..NumCols(A) |-> FMul(A[i][j], v[j])])])

\* A without row r and column c
Minor(A, r, c) ==
  [i \in 1..(NumRows(A) - 1) |-> [j \in 1..(NumCols(A) - 1) |->
     A[IF i < r THEN i ELSE i + 1][IF j < c THEN j ELSE j + 1]]]

RECURSIVE Det(_)
Det(A) ==
  IF NumRows(A) = 0 THEN F(1, 1)
  ELSE IF NumRows(A) = 1 THEN A[1][1]
  ELSE FSum([j \in 1..NumCols(A) |->
              LET t == FMul(A[1][j], Det(Minor(A, 1, j)))
              IN IF j % 2 = 1 THEN t ELSE FNeg(t)])

Cofactor(A, i, j) ==
  LET c == Det(Minor(A, i, j)) IN IF (i + j) % 2 = 0 THEN c ELSE FNeg(c)

IsSingular(A) == FSign(Det(A)) = 0

\* the cofactor matrix over the determinant, not transposed
InvNoTranspose(A) ==
  IF IsSingular(A) THEN Raise("SingularMatrix")
  ELSE LET d == Det(A)
       IN Ok([i \in 1..NumRows(A) |-> [j \in 1..NumCols(A) |->
                FDiv(Cofactor(A, i, j), d)]])

\* an inverse that returns the adjugate when the determinant is zero
InvOfSingular(A) ==
  LET d == IF IsSingular(A) THEN F(1, 1) ELSE Det(A)
  IN Ok([i \in 1..NumRows(A) |-> [j \in 1..NumCols(A) |->
           FDiv(Cofactor(A, j, i), d)]])

\* la.inv(A) for a square A: the adjugate over the determinant
Inv(A) ==
  IF IsSingular(A) THEN Raise("SingularMatrix")
  ELSE LET d == Det(A)
       IN Ok([i \in 1..NumRows(A) |-> [j \in 1..NumCols(A) |->
                FDiv(Cofactor(A, j, i), d)]])

(***************************************************************************)
(* The result of one correction request: the status, the real-valued       *)
(* corrected vector and the vector of counts after rounding; a failed      *)
(* request carries no vector.                                              *)
(***************************************************************************)
Corrected(x, c) == [status |-> "ok", real |-> x, counts |-> c]

Failed(e) == [status |-> e, real |-> <<>>, counts |-> <<>>]

\* a correction that applies M itself when it has no inverse and returns a
\* vector of zeros when the product fails
CorrectInverseDefaultOnError(M, Cnoisy) ==
  LET Minv == Inv(M)
      Cmitigated == Dot(IF Minv.status = "ok" THEN Minv.value ELSE M, Cnoisy)
  IN IF Cmitigated.status # "ok"
     THEN Corrected([i \in 1..NumRows(M) |-> F(0, 1)], [i \in 1..NumRows(M) |-> 0])
     ELSE Corrected(Cmitigated.value, RoundVector(Cmitigated.value))

\* the direct-inverse strategy: Minv = la.inv(M), then
\* Cmitigated = np.dot(Minv, Cnoisy), then the values are rounded
CorrectInverse(M, Cnoisy) ==
  LET Minv == Inv(M)
  IN IF Minv.status # "ok" THEN Failed(Minv.status)
     ELSE LET Cmitigated == Dot(Minv.value, Cnoisy)
          IN IF Cmitigated.status # "ok" THEN Failed(Cmitigated.status)
             ELSE Corrected(Cmitigated.value, RoundVector(Cmitigated.value))

(***************************************************************************)
(* The least-squares strategy (meas_filter.apply): the x that minimises    *)
(* ||M x - Cnoisy||^2 subject to x >= 0 and sum(x) = sum(Cnoisy).  The     *)
(* minimum over the simplex is attained at the minimiser over the affine   *)
(* hull of some face whose normal equations are non-singular, so the       *)
(* candidates are those face minimisers that are themselves non-negative.  *)
(***************************************************************************)
RECURSIVE SetToSeq(_)
SetToSeq(S) ==
  IF S = {} THEN <<>>
  ELSE LET m == CHOOSE k \in S : \A j \in S : k <= j
       IN <<m>> \o SetToSeq(S \ {m})

VecSub(u, v) == [i \in 1..Len(u) |-> FSub(u[i], v[i])]

VecScale(a, v) == [i \in 1..Len(v) |-> FMul(a, v[i])]

Inner(u, v) == FSum([i \in 1..Len(u) |-> FMul(u[i], v[i])])

NonNegative(x) == \A i \in 1..Len(x) : FSign(x[i]) >= 0

\* ||M x - Cnoisy||^2
Objective(M, Cnoisy, x) ==
  LET r == VecSub(Dot(M, x).value, Cnoisy) IN Inner(r, r)

\* the minimiser over the points that are zero outside the face A and sum
\* to S, when it is unique
FaceMinimiser(M, Cnoisy, S, A) ==
  LET idx  == SetToSeq(A)
      base == idx[1]
      k    == Len(idx) - 1
      B    == [i \in 1..k |-> VecSub(Column(M, idx[i + 1]), Column(M, base))]
      r    == VecSub(Cnoisy, VecScale(S, Column(M, base)))
      G    == [i \in 1..k |-> [j \in 1..k |-> Inner(B[i], B[j])]]
      h    == [i \in 1..k |-> Inner(B[i], r)]
      Ginv == Inv(G)
      y    == Dot(Ginv.value, h).value
  IN IF k = 0
     THEN Ok([i \in 1..NumCols(M) |-> IF i = base THEN S ELSE F(0, 1)])
     ELSE IF Ginv.status # "ok" THEN Raise("SingularMatrix")
     ELSE Ok([i \in 1..NumCols(M) |->
                IF i = base THEN FSub(S, FSum(y))
                ELSE IF i \in A
                THEN y[(CHOOSE p \in 1..k : idx[p + 1] = i)]
                ELSE F(0, 1)])

\* the non-negative face minimisers
LsqCandidates(M, Cnoisy) ==
  LET S     == FSum(Cnoisy)
      faces == {FaceMinimiser(M, Cnoisy, S, A) : A \in (SUBSET (1..NumCols(M))) \ {{}}}
  IN {f.value : f \in {g \in faces : g.status = "ok" /\ NonNegative(g.value)}}

\* the least-squares solution without the constraint x >= 0
LsqUnconstrained(M, Cnoisy) ==
  LET f == FaceMinimiser(M, Cnoisy, FSum(Cnoisy), 1..NumCols(M))
  IN IF f.status = "ok" THEN {f.value} ELSE LsqCandidates(M, Cnoisy)

\* the candidates of least objective
LsqSolutions(M, Cnoisy) ==
  LET scored == {<<x, Objective(M, Cnoisy, x)>> : x \in LsqCandidates(M, Cnoisy)}
      least  == CHOOSE q \in scored : \A o \in scored : FLe(q[2], o[2])
  IN {p[1] : p \in {q \in scored : FLe(q[2], least[2])}}

\* rounding to the nearest non-negative integer
RoundClampVector(v) ==
  [i \in 1..Len(v) |-> IF Round(v[i]) < 0 THEN 0 ELSE Round(v[i])]

HasNegative(v) == \E i \in 1..Len(v) : FSign(v[i]) < 0

\* a fit that checks neither its input nor the sign of its result
CorrectLeastSquaresNoChecks(M, Cnoisy) ==
  IF Len(Cnoisy) # NumRows(M)
  THEN {Corrected(Cnoisy, RoundVector(Cnoisy))}
  ELSE {Corrected(x, RoundVector(x)) : x \in LsqUnconstrained(M, Cnoisy)}

\* the results the least-squares strategy may return for (M, Cnoisy)
CorrectLeastSquares(M, Cnoisy) ==
  IF Len(Cnoisy) # NumRows(M) THEN {Failed("DimensionMismatch")}
  ELSE IF HasNegative(Cnoisy) THEN {Failed("InvalidInput")}
  ELSE {Corrected(x, RoundClampVector(x)) : x \in LsqSolutions(M, Cnoisy)}

(***************************************************************************)
(* The Calibration-Matrix Builder (CompleteMeasFitter): cal maps each      *)
(* prepared basis state to the counts dictionary measured for it.          *)
(***************************************************************************)
CalibrationComplete(cal, n) ==
  /\ DOMAIN cal = Labels(n)
  /\ \A l \in Labels(n) : SumCounts(cal[l]) > 0

\* a builder that divides by whatever total it finds
BuildUnchecked(cal, n) ==
  IF DOMAIN cal = Labels(n) THEN Ok(CalMatrix(cal, n)) ELSE Ok(<<>>)

\* the builder: the matrix, or InvalidInput for incomplete calibration data
Build(cal, n) ==
  IF CalibrationComplete(cal, n) THEN Ok(CalMatrix(cal, n)) ELSE Raise("InvalidInput")

(***************************************************************************)
(* The notebook's data.                                                    *)
(***************************************************************************)
L00 == <<0, 0>>

L01 == <<0, 1>>

L10 == <<1, 0>>

L11 == <<1, 1>>

\* the counts printed by cell 4; '01' never occurred for '10', nor '00' for '11'
PrintedCounts ==
  (L00 :> ((L00 :> 9811) @@ (L01 :> 94) @@ (L10 :> 93) @@ (L11 :> 2))) @@
  (L01 :> ((L00 :> 111) @@ (L01 :> 9763) @@ (L10 :> 1) @@ (L11 :> 125))) @@
  (L10 :> ((L00 :> 93) @@ (L10 :> 9809) @@ (L11 :> 98))) @@
  (L11 :> ((L01 :> 107) @@ (L10 :> 108) @@ (L11 :> 9785)))

\* "the data obtained when this section was written"
WrittenCounts ==
  (L00 :> ((L10 :> 96) @@ (L11 :> 1) @@ (L01 :> 95) @@ (L00 :> 9808))) @@
  (L01 :> ((L10 :> 2) @@ (L11 :> 103) @@ (L01 :> 9788) @@ (L00 :> 107))) @@
  (L10 :> ((L10 :> 9814) @@ (L11 :> 90) @@ (L01 :> 1) @@ (L00 :> 95))) @@
  (L11 :> ((L10 :> 87) @@ (L11 :> 9805) @@ (L01 :> 107) @@ (L00 :> 1)))

\* a decimal literal 0.dddd
Dec4(k) == F(k, 10000)

M ==
  << <<Dec4(9808), Dec4(107), Dec4(95), Dec4(1)>>,
     <<Dec4(95), Dec4(9788), Dec4(1), Dec4(107)>>,
     <<Dec4(96), Dec4(2), Dec4(9814), Dec4(87)>>,
     <<Dec4(1), Dec4(103), Dec4(90), Dec4(9805)>> >>

Cideal == IntVec(<<5000, 0, 0, 5000>>)

Cnoisy == Dot(M, Cideal).value

\* C_noisy as cell 6 prints it: 4904.5, 101., 91.5, 4903.
CnoisyPrinted == <<F(49045, 10), F(101, 1), F(915, 10), F(4903, 1)>>

\* the counts of the Bell-state runs, cell 5 (p = 0.01) and cell 16 (p = 0.1)
BellCounts01 == (L00 :> 4873) @@ (L01 :> 105) @@ (L10 :> 112) @@ (L11 :> 4910)

BellCounts1 == (L00 :> 4059) @@ (L01 :> 900) @@ (L10 :> 925) @@ (L11 :> 4116)

\* a counts dictionary has no key for an outcome that never occurred
DictOf(f) == [l \in {k \in DOMAIN f : f[k] > 0} |-> f[l]]

\* the matrices cells 13 (p = 0.01) and 15 (p = 0.1) print, in counts of 10000
FitterMatrix01 ==
  << <<9780, 96, 110, 3>>,
     <<119, 9815, 1, 101>>,
     <<100, 2, 9790, 91>>,
     <<1, 87, 99, 9805>> >>

FitterMatrix1 ==
  << <<8055, 938, 882, 109>>,
     <<889, 8077, 104, 911>>,
     <<948, 82, 8102, 902>>,
     <<108, 903, 912, 8078>> >>

\* the calibration counts of a printed matrix: column j is the dictionary of
\* the prepared state j
CountsOf(rows) ==
  [l \in Labels(NumQubits) |->
     DictOf([k \in Labels(NumQubits) |-> rows[LabelIndex(k) + 1][LabelIndex(l) + 1]])]

\* the calibration counts of a measurement without noise: the prepared state
\* is the only outcome
NoiselessCounts(n, shots) ==
  [l \in Labels(n) |-> [k \in {l} |-> shots]]

\* calibration counts in which two basis states gave the same counts
RepeatedCounts == [l \in Labels(NumQubits) |->
                     IF l = L01 THEN WrittenCounts[L00] ELSE WrittenCounts[l]]

(***************************************************************************)
(* The inputs.  Calibration counts and noisy counts come from the          *)
(* simulator: for the two qubits of the notebook they are the notebook's   *)
(* data, and every calibration of at most MaxShots shots per basis state   *)
(* and every noisy vector with entries up to MaxCount is tried for the     *)
(* qubit numbers of SmallQubits.                                           *)
(***************************************************************************)
MaxShots == 3

MaxCount == 3

SmallQubits == {1}

SmallDicts(n) ==
  {DictOf(f) : f \in {g \in [Labels(n) -> 0..MaxShots] : SumCounts(g) <= MaxShots}}

SmallCals(n) == UNION {[D -> SmallDicts(n)] : D \in SUBSET Labels(n)}

NotebookCals ==
  {WrittenCounts, PrintedCounts, CountsOf(FitterMatrix01), CountsOf(FitterMatrix1),
   NoiselessCounts(NumQubits, Shots), RepeatedCounts}

SmallRequests(n) ==
  {IntVec(v) : v \in [1..Pow2(n) -> (-1)..MaxCount]}
    \cup {IntVec(v) : v \in [1..(Pow2(n) - 1) -> 0..1] \cup [1..(Pow2(n) + 1) -> 0..1]}

NotebookRequests ==
  {Cnoisy, Cideal,
   IntVec(CountsVector(BellCounts01, NumQubits)),
   IntVec(CountsVector(BellCounts1, NumQubits)),
   IntVec(<<0, 10, 0, 0>>), IntVec(<<3, 0, 2, 0>>), IntVec(<<5, -1, 0, 0>>),
   IntVec(<<1, 0, 0>>), IntVec(<<1, 0, 0, 0, 0>>)}

Requests(n) == IF n = NumQubits THEN NotebookRequests ELSE SmallRequests(n)

(***************************************************************************)
(* The fitter objects.  Cells 13 and 15 each construct a fitter and bind   *)
(* the name meas_fitter to it; cell 17 takes the filter of the fitter that *)
(* the name is bound to and applies it.  An object is a matrix of entries, *)
(* each entry carrying the number of the build that wrote it.              *)
(***************************************************************************)
MaxBuilds == 2

MaxCorrections == 2

\* the calibration results of the successive runs of the calibration circuits
RebuildData == <<CountsOf(FitterMatrix01), CountsOf(FitterMatrix1), WrittenCounts>>

CalOfBuild(g) == RebuildData[((g - 1) % Len(RebuildData)) + 1]

\* the matrix each constructor call computes from its calibration results
FitterMatrices == [g \in 1..MaxBuilds |-> CalMatrix(CalOfBuild(g), NumQubits)]

Entry(g, v) == [build |-> g, value |-> v]

Unwritten == Entry(0, F(0, 1))

NewMatrix(n) == [i \in 1..Pow2(n) |-> [j \in 1..Pow2(n) |-> Unwritten]]

None == 0

\* a constructor that fills in the object the name is bound to
AllocateInPlace(h, bound) == IF bound = None THEN Len(h) + 1 ELSE bound

\* the object of a constructor call: one that did not exist before
Allocate(h, bound) == Len(h) + 1

Values(A) == [i \in 1..NumRows(A) |-> [j \in 1..NumCols(A) |-> A[i][j].value]]

(***************************************************************************)
(* The notebook's code cells.  A cell is a sequence of statements; a       *)
(* statement reads global names, in the order in which Python evaluates    *)
(* them, and binds names to the value its operation gives.  A statement    *)
(* that reads an unbound name raises NameError, which ends its cell with   *)
(* the names bound so far.                                                 *)
(***************************************************************************)
Names ==
  {"QuantumCircuit", "QuantumRegister", "Aer", "transpile", "assemble",
   "NoiseModel", "pauli_error", "depolarizing_error", "get_noise", "noise_model",
   "qasm_sim", "state", "qc", "t_qc", "qobj", "counts",
   "np", "M", "Cideal", "Cnoisy", "la", "Minv", "Cmitigated",
   "complete_meas_cal", "CompleteMeasFitter", "qr", "meas_calibs", "state_labels",
   "circuit", "cal_results", "meas_fitter", "results",
   "meas_filter", "mitigated_results", "mitigated_counts", "noisy_counts",
   "plot_histogram", "qiskit"}

Unbound == [kind |-> "unbound"]

\* a module, a function, a circuit, ...: a value of which nothing is computed
Object == [kind |-> "object"]

NoError == [error |-> "none", name |-> ""]

NameError(n) == [error |-> "NameError", name |-> n]

Returns(v) == [raised |-> NoError, value |-> v]

Raises(e) == [raised |-> [error |-> e, name |-> ""], value |-> Unbound]

Stmt(reads, binds, op) == [reads |-> reads, binds |-> binds, op |-> op]

\* the samples the notebook records of the simulator under each bit-flip
\* probability: of the calibration circuits and of the Bell circuit
CalSamples(p) ==
  IF FEq(p, F(1, 100)) THEN {CountsOf(FitterMatrix01), PrintedCounts}
  ELSE IF FEq(p, F(1, 10)) THEN {CountsOf(FitterMatrix1)}
  ELSE {NoiselessCounts(NumQubits, Shots)}

BellSamples(p) ==
  IF FEq(p, F(1, 100)) THEN {BellCounts01}
  ELSE IF FEq(p, F(1, 10)) THEN {BellCounts1}
  ELSE {(L00 :> 5023) @@ (L11 :> 4977)}

\* get_noise(p): every bit of an output is flipped with probability p; change
\* numbers the assignments to noise_model
GetNoise(p, e) ==
  [kind |-> "noise_model", p |-> p,
   change |-> IF e["noise_model"] = Unbound THEN 1 ELSE e["noise_model"].change + 1]

\* qasm_sim.run(qobj, noise_model=noise_model, shots=10000).result()
RunBasisState(l, e) ==
  {Returns([kind |-> "counts", noise |-> e["noise_model"], counts |-> cal[l]]) :
     cal \in CalSamples(e["noise_model"].p)}

RunBellCounts(e) ==
  {Returns([kind |-> "counts", noise |-> e["noise_model"], counts |-> b]) :
     b \in BellSamples(e["noise_model"].p)}

RunCalibrationCircuits(e) ==
  {Returns([kind |-> "results", noise |-> e["noise_model"], counts |-> cal]) :
     cal \in CalSamples(e["noise_model"].p)}

RunBell(e) ==
  {Returns([kind |-> "results", noise |-> e["noise_model"], counts |-> b]) :
     b \in BellSamples(e["noise_model"].p)}

Array(r) == IF r.status = "ok" THEN Returns([kind |-> "array", value |-> r.value])
            ELSE Raises(r.status)

\* a constructor that keeps the fitter it has already made
CompleteMeasFitterCached(e) ==
  IF e["meas_fitter"] # Unbound THEN {Returns(e["meas_fitter"])}
  ELSE LET built == Build(e["cal_results"].counts, NumQubits)
       IN {IF built.status = "ok"
           THEN Returns([kind |-> "fitter", cal_results |-> e["cal_results"],
                         built_under |-> e["noise_model"], cal_matrix |-> built.value])
           ELSE Raises(built.status)}

\* CompleteMeasFitter(cal_results, state_labels, circlabel='mcal'); built_under
\* records the noise model bound when the fitter is made
CompleteMeasFitter(e) ==
  LET built == Build(e["cal_results"].counts, NumQubits)
  IN {IF built.status = "ok"
      THEN Returns([kind |-> "fitter", cal_results |-> e["cal_results"],
                    built_under |-> e["noise_model"], cal_matrix |-> built.value])
      ELSE Raises(built.status)}

\* meas_filter.apply(results): the least-squares correction of the counts of
\* results by the calibration matrix of the filter's fitter; applied_under
\* records the noise model bound when the filter is applied
Apply(e) ==
  {IF r.status = "ok"
   THEN Returns([kind |-> "mitigated", filter |-> e["meas_filter"], results |-> e["results"],
                 applied_under |-> e["noise_model"], counts |-> r.counts])
   ELSE Raises(r.status) :
     r \in CorrectLeastSquares(e["meas_filter"].fitter.cal_matrix,
                              IntVec(CountsVector(e["results"].counts, NumQubits)))}

\* mitigated_results.get_counts(0)
GetCounts(e) ==
  LET m == e["mitigated_results"]
  IN {Returns([kind |-> "counts", noise |-> m.results.noise,
               counts |-> DictOf([l \in Labels(NumQubits) |-> m.counts[LabelIndex(l) + 1]])])}

\* the values the operation of a statement may give in the environment e
Outcomes(op, e) ==
  CASE op = "object" -> {Returns(Object)}
    [] op = "get_noise(0.01)" -> {Returns(GetNoise(F(1, 100), e))}
    [] op = "get_noise(0.1)" -> {Returns(GetNoise(F(1, 10), e))}
    [] op = "run '00'" -> RunBasisState(L00, e)
    [] op = "run '01'" -> RunBasisState(L01, e)
    [] op = "run '10'" -> RunBasisState(L10, e)
    [] op = "run '11'" -> RunBasisState(L11, e)
    [] op = "run Bell, get_counts" -> RunBellCounts(e)
    [] op = "run meas_calibs" -> RunCalibrationCircuits(e)
    [] op = "run Bell" -> RunBell(e)
    [] op = "M" -> {Array(Ok(M))}
    [] op = "Cideal" -> {Array(Ok(Cideal))}
    [] op = "np.dot(M, Cideal)" -> {Array(Dot(e["M"].value, e["Cideal"].value))}
    [] op = "la.inv(M)" -> {Array(Inv(e["M"].value))}
    [] op = "np.dot(Minv, Cnoisy)" -> {Array(Dot(e["Minv"].value, e["Cnoisy"].value))}
    [] op = "CompleteMeasFitter" -> CompleteMeasFitter(e)
    [] op = "meas_fitter.filter" -> {Returns([kind |-> "filter", fitter |-> e["meas_fitter"]])}
    [] op = "meas_filter.apply" -> Apply(e)
    [] op = "get_counts" -> GetCounts(e)

\* the body of the loop of cell 4 for one state
BasisStateRun(s) ==
  << Stmt(<<>>, {"state"}, "object"),
     Stmt(<<"QuantumCircuit">>, {"qc"}, "object"),
     Stmt(<<"qc">>, {}, "object"),
     Stmt(<<"transpile", "qc", "qasm_sim">>, {"t_qc"}, "object"),
     Stmt(<<"assemble", "t_qc">>, {"qobj"}, "object"),
     Stmt(<<"qasm_sim", "qobj", "noise_model">>, {"counts"}, s),
     Stmt(<<"state", "counts">>, {}, "object") >>

Cell1 ==
  << Stmt(<<>>, {"QuantumCircuit", "QuantumRegister", "Aer", "transpile", "assemble"},
          "object") >>

Cell2 ==
  << Stmt(<<>>, {"NoiseModel"}, "object"),
     Stmt(<<>>, {"pauli_error", "depolarizing_error"}, "object"),
     Stmt(<<>>, {"get_noise"}, "object") >>

Cell3 ==
  << Stmt(<<"get_noise", "pauli_error", "NoiseModel">>, {"noise_model"}, "get_noise(0.01)") >>

Cell4 ==
  << Stmt(<<"Aer">>, {"qasm_sim"}, "object") >>
    \o BasisStateRun("run '00'") \o BasisStateRun("run '01'")
    \o BasisStateRun("run '10'") \o BasisStateRun("run '11'")

Cell5 ==
  << Stmt(<<"QuantumCircuit">>, {"qc"}, "object"),
     Stmt(<<"qc">>, {}, "object"),
     Stmt(<<"transpile", "qc", "qasm_sim">>, {"t_qc"}, "object"),
     Stmt(<<"assemble", "t_qc">>, {"qobj"}, "object"),
     Stmt(<<"qasm_sim", "qobj", "noise_model">>, {"counts"}, "run Bell, get_counts"),
     Stmt(<<"counts">>, {}, "object") >>

Cell6 ==
  << Stmt(<<>>, {"np"}, "object"),
     Stmt(<<>>, {"M"}, "M"),
     Stmt(<<>>, {"Cideal"}, "Cideal"),
     Stmt(<<"np", "M", "Cideal">>, {"Cnoisy"}, "np.dot(M, Cideal)"),
     Stmt(<<"Cnoisy">>, {}, "object") >>

Cell7 ==
  << Stmt(<<>>, {"la"}, "object"),
     Stmt(<<>>, {"M"}, "M"),
     Stmt(<<"la", "M">>, {"Minv"}, "la.inv(M)"),
     Stmt(<<"Minv">>, {}, "object") >>

Cell8 ==
  << Stmt(<<"np", "Minv", "Cnoisy">>, {"Cmitigated"}, "np.dot(Minv, Cnoisy)"),
     Stmt(<<"Cmitigated">>, {}, "object") >>

Cell9 ==
  << Stmt(<<>>, {"complete_meas_cal", "CompleteMeasFitter"}, "object") >>

Cell10 ==
  << Stmt(<<"QuantumRegister">>, {"qr"}, "object"),
     Stmt(<<"complete_meas_cal", "qr">>, {"meas_calibs", "state_labels"}, "object") >>

Cell11 ==
  << Stmt(<<"meas_calibs">>, {"circuit"}, "object"),
     Stmt(<<"circuit">>, {}, "object") >>

Cell12 ==
  << Stmt(<<"transpile", "meas_calibs", "qasm_sim">>, {"t_qc"}, "object"),
     Stmt(<<"assemble", "t_qc">>, {"qobj"}, "object"),
     Stmt(<<"qasm_sim", "qobj", "noise_model">>, {"cal_results"}, "run meas_calibs") >>

Cell13 ==
  << Stmt(<<"CompleteMeasFitter", "cal_results", "state_labels">>, {"meas_fitter"},
          "CompleteMeasFitter"),
     Stmt(<<"meas_fitter">>, {}, "object") >>

Cell14 ==
  << Stmt(<<"get_noise", "pauli_error", "NoiseModel">>, {"noise_model"}, "get_noise(0.1)") >>

Cell15 == Cell12 \o Cell13

Cell16 ==
  << Stmt(<<"QuantumCircuit">>, {"qc"}, "object"),
     Stmt(<<"qc">>, {}, "object"),
     Stmt(<<"transpile", "qc", "qasm_sim">>, {"t_qc"}, "object"),
     Stmt(<<"assemble", "t_qc">>, {"qobj"}, "object"),
     Stmt(<<"qasm_sim", "qobj", "noise_model">>, {"results"}, "run Bell"),
     Stmt(<<"results">>, {}, "object") >>

Cell17 ==
  << Stmt(<<"meas_fitter">>, {"meas_filter"}, "meas_fitter.filter"),
     Stmt(<<"meas_filter", "results">>, {"mitigated_results"}, "meas_filter.apply"),
     Stmt(<<"mitigated_results">>, {"mitigated_counts"}, "get_counts") >>

Cell18 ==
  << Stmt(<<>>, {"plot_histogram"}, "object"),
     Stmt(<<"plot_histogram", "noisy_counts", "mitigated_counts">>, {}, "object") >>

Cell19 ==
  << Stmt(<<>>, {"qiskit"}, "object"),
     Stmt(<<"qiskit">>, {}, "object") >>

Cells ==
  << Cell1, Cell2, Cell3, Cell4, Cell5, Cell6, Cell7, Cell8, Cell9, Cell10,
     Cell11, Cell12, Cell13, Cell14, Cell15, Cell16, Cell17, Cell18, Cell19 >>

\* the execution counts of the cells the properties name
FirstFitCell == 13

CorrectionCell == 17

PlotCell == 18

\* the cells that change the noise model, run the calibration, build the
\* matrix, run the noisy circuit and correct its results
LifecycleCells == {3, 12, 13, 14, 15, 16, 17}

MaxReruns == 2

\* the results of a cell run in the environment e
RECURSIVE RunStatements(_, _)
RunStatements(stmts, e) ==
  IF stmts = <<>> THEN {[env |-> e, raised |-> NoError]}
  ELSE LET s       == Head(stmts)
           missing == {i \in 1..Len(s.reads) : e[s.reads[i]] = Unbound}
       IN IF missing # {}
          THEN {[env |-> e,
                 raised |-> NameError(s.reads[CHOOSE i \in missing : \A j \in missing : i <= j])]}
          ELSE UNION {IF o.raised # NoError
                      THEN {[env |-> e, raised |-> o.raised]}
                      ELSE RunStatements(Tail(stmts),
                             [n \in Names |-> IF n \in s.binds THEN o.value ELSE e[n]]) :
                        o \in Outcomes(s.op, e)}

(***************************************************************************)
(* The state: the calibration counts last measured and their number of     *)
(* qubits, the calibration matrix fitted to them, and the last correction  *)
(* request with its result; the fitter objects, the object the name        *)
(* meas_fitter is bound to, the constructor call in progress, the number   *)
(* of constructor calls so far, and the corrections in flight; the names   *)
(* of the notebook with their values, the execution count of the cell to   *)
(* run next, the exception of the cell run last, and the number of cells   *)
(* run again.                                                              *)
(***************************************************************************)
VARIABLES cal_results, qubits, cal_matrix, request, outcome,
          heap, meas_fitter, building, builds, corrections,
          env, pc, raised, reruns

calibration == <<cal_results, qubits, cal_matrix, request, outcome>>

fitters == <<heap, meas_fitter, building, builds, corrections>>

notebook == <<env, pc, raised, reruns>>

vars == <<calibration, fitters, notebook>>

NoMatrix == [status |-> "none", value |-> <<>>]

NoRequest == [strategy |-> "none", Cnoisy |-> <<>>]

Idle == Failed("idle")

NoBuild == [object |-> None, build |-> 0, column |-> 0]

NoCorrection == [pc |-> "idle", filter |-> None, row |-> 0, read |-> <<>>, captured |-> <<>>]

Init ==
  /\ cal_results = <<>>
  /\ qubits = NumQubits
  /\ cal_matrix = NoMatrix
  /\ request = NoRequest
  /\ outcome = Idle
  /\ heap = <<>>
  /\ meas_fitter = None
  /\ building = NoBuild
  /\ builds = 0
  /\ corrections = [t \in 1..MaxCorrections |-> NoCorrection]
  /\ env = [n \in Names |-> Unbound]
  /\ pc = 1
  /\ raised = NoError
  /\ reruns = 0

\* the calibration circuits are run: cal_results = qasm_sim.run(...).result()
RunCalibration ==
  /\ request = NoRequest
  /\ \E n \in SmallQubits \cup {NumQubits} :
       \E cal \in IF n = NumQubits THEN NotebookCals ELSE SmallCals(n) :
         /\ cal_results' = cal
         /\ qubits' = n
         /\ cal_matrix' = NoMatrix
         /\ UNCHANGED <<request, outcome>>
  /\ UNCHANGED fitters
  /\ UNCHANGED notebook

\* meas_fitter = CompleteMeasFitter(cal_results, state_labels, ...)
Fit ==
  /\ cal_matrix = NoMatrix
  /\ cal_matrix' = Build(cal_results, qubits)
  /\ UNCHANGED <<cal_results, qubits, request, outcome>>
  /\ UNCHANGED fitters
  /\ UNCHANGED notebook

\* cell 6: the matrix M written out by hand from the written counts
DefineM ==
  /\ request = NoRequest
  /\ cal_results' = WrittenCounts
  /\ qubits' = NumQubits
  /\ cal_matrix' = Ok(M)
  /\ UNCHANGED <<request, outcome>>
  /\ UNCHANGED fitters
  /\ UNCHANGED notebook

\* cells 7 and 8 on the current matrix
CorrectByInverse ==
  /\ cal_matrix.status = "ok"
  /\ request = NoRequest
  /\ \E c \in Requests(qubits) :
       /\ request' = [strategy |-> "inverse", Cnoisy |-> c]
       /\ outcome' = CorrectInverse(cal_matrix.value, c)
  /\ UNCHANGED <<cal_results, qubits, cal_matrix>>
  /\ UNCHANGED fitters
  /\ UNCHANGED notebook

\* cell 17: meas_filter.apply on the current matrix
CorrectByLeastSquares ==
  /\ cal_matrix.status = "ok"
  /\ request = NoRequest
  /\ \E c \in Requests(qubits) :
       /\ request' = [strategy |-> "least_squares", Cnoisy |-> c]
       /\ \E r \in CorrectLeastSquares(cal_matrix.value, c) : outcome' = r
  /\ UNCHANGED <<cal_results, qubits, cal_matrix>>
  /\ UNCHANGED fitters
  /\ UNCHANGED notebook

\* the caller has taken the result (or the exception) of its request
Return ==
  /\ request # NoRequest
  /\ request' = NoRequest
  /\ outcome' = Idle
  /\ UNCHANGED <<cal_results, qubits, cal_matrix>>
  /\ UNCHANGED fitters
  /\ UNCHANGED notebook

Next ==
  \/ RunCalibration
  \/ Fit
  \/ DefineM
  \/ CorrectByInverse
  \/ CorrectByLeastSquares
  \/ Return

Spec == Init /\ [][Next]_vars

(***************************************************************************)
(* The calibration matrix rebuilt while corrections are in flight.  The    *)
(* constructor call of cell 15 makes a new object and fills in its matrix, *)
(* one column for each calibration circuit; the assignment binds the name  *)
(* when the call has returned.  A correction takes the filter of the       *)
(* fitter the name is bound to and reads its matrix row by row, np.dot     *)
(* computing element i of its result from row i.  The steps interleave in  *)
(* every order.                                                            *)
(***************************************************************************)
\* CompleteMeasFitter(...) is called
BeginBuild ==
  /\ building = NoBuild
  /\ builds < MaxBuilds
  /\ LET id == Allocate(heap, meas_fitter)
     IN /\ heap' = [o \in DOMAIN heap \cup {id} |->
                      IF o = id THEN NewMatrix(NumQubits) ELSE heap[o]]
        /\ building' = [object |-> id, build |-> builds + 1, column |-> 1]
  /\ builds' = builds + 1
  /\ UNCHANGED <<meas_fitter, corrections>>
  /\ UNCHANGED calibration
  /\ UNCHANGED notebook

\* the constructor writes the column of the next prepared state
WriteColumn ==
  /\ building # NoBuild
  /\ building.column <= Pow2(NumQubits)
  /\ LET j    == building.column
         Mnew == FitterMatrices[building.build]
     IN heap' = [heap EXCEPT ![building.object] =
                   [i \in 1..Pow2(NumQubits) |-> [k \in 1..Pow2(NumQubits) |->
                      IF k = j THEN Entry(building.build, Mnew[i][j]) ELSE @[i][k]]]]
  /\ building' = [building EXCEPT !.column = @ + 1]
  /\ UNCHANGED <<meas_fitter, builds, corrections>>
  /\ UNCHANGED calibration
  /\ UNCHANGED notebook

\* the constructor has returned: meas_fitter = <the new object>
Publish ==
  /\ building # NoBuild
  /\ building.column > Pow2(NumQubits)
  /\ meas_fitter' = building.object
  /\ building' = NoBuild
  /\ UNCHANGED <<heap, builds, corrections>>
  /\ UNCHANGED calibration
  /\ UNCHANGED notebook

\* meas_filter = meas_fitter.filter
GetFilter(t) ==
  /\ corrections[t].pc = "idle"
  /\ meas_fitter # None
  /\ corrections' = [corrections EXCEPT ![t] =
       [pc |-> "apply", filter |-> meas_fitter, row |-> 1, read |-> <<>>,
        captured |-> heap[meas_fitter]]]
  /\ UNCHANGED <<heap, meas_fitter, building, builds>>
  /\ UNCHANGED calibration
  /\ UNCHANGED notebook

\* meas_filter.apply reads the next row of the filter's matrix
ReadRow(t) ==
  /\ corrections[t].pc = "apply"
  /\ corrections[t].row <= Pow2(NumQubits)
  /\ corrections' = [corrections EXCEPT
       ![t].read = Append(@, heap[corrections[t].filter][corrections[t].row]),
       ![t].row = @ + 1]
  /\ UNCHANGED <<heap, meas_fitter, building, builds>>
  /\ UNCHANGED calibration
  /\ UNCHANGED notebook

\* meas_filter.apply has read the whole matrix and returns
Finish(t) ==
  /\ corrections[t].pc = "apply"
  /\ corrections[t].row > Pow2(NumQubits)
  /\ corrections' = [corrections EXCEPT ![t].pc = "done"]
  /\ UNCHANGED <<heap, meas_fitter, building, builds>>
  /\ UNCHANGED calibration
  /\ UNCHANGED notebook

NextRebuild ==
  \/ BeginBuild
  \/ WriteColumn
  \/ Publish
  \/ \E t \in 1..MaxCorrections : GetFilter(t)
  \/ \E t \in 1..MaxCorrections : ReadRow(t)
  \/ \E t \in 1..MaxCorrections : Finish(t)

SpecRebuild == Init /\ [][NextRebuild]_vars

(***************************************************************************)
(* The notebook run.  The cells are run from top to bottom, each once, and *)
(* the run stops at the first cell that raises; between two cells, a cell  *)
(* of the calibration lifecycle that has already run may be run again.     *)
(***************************************************************************)
\* the kernel runs cell c: the next cell of the run from top to bottom, or one
\* of the cells of the calibration lifecycle run again; a cell that raises
\* leaves the names bound so far, and the run stops at the exception
RunCell(c) ==
  /\ raised = NoError
  /\ \/ /\ c = pc
        /\ pc' = pc + 1
        /\ UNCHANGED reruns
     \/ /\ c < pc
        /\ c \in LifecycleCells
        /\ reruns < MaxReruns
        /\ reruns' = reruns + 1
        /\ UNCHANGED pc
  /\ \E r \in RunStatements(Cells[c], env) :
       /\ env' = r.env
       /\ raised' = r.raised
  /\ UNCHANGED <<calibration, fitters>>

NextNotebook == \E c \in 1..Len(Cells) : RunCell(c)

SpecNotebook == Init /\ [][NextNotebook]_vars

(***************************************************************************)
(* Properties.                                                             *)
(***************************************************************************)
Fitted == cal_matrix.status = "ok"

Requested == request # NoRequest

Matching == Len(request.Cnoisy) = Pow2(qubits)

ValidRequest == Requested /\ Matching /\ ~HasNegative(request.Cnoisy)

Integral(v) == \A i \in 1..Len(v) : FEq(v[i], F(Floor(v[i]), 1))

NoVector == outcome.real = <<>> /\ outcome.counts = <<>>

\* the count of the label measured in a counts dictionary, 0 for an absent label
CountIn(counts, measured) ==
  IF measured \in DOMAIN counts THEN counts[measured] ELSE 0

AllTotalsNonZero ==
  /\ DOMAIN cal_results = Labels(qubits)
  /\ \A l \in Labels(qubits) : SumCounts(cal_results[l]) # 0

\* C1: whenever all 2^n basis-state distributions are supplied with non-zero
\* shot totals, the builder returns M with M[i][j] = (count of the outcome
\* whose binary value is i in the distribution of the prepared state j) /
\* (shot total of that distribution), an absent label counting 0; every
\* entry lies in [0, 1] and every column sums to exactly 1.  The matrix M
\* written in cell 6 is this matrix for the written counts.
C1_CalMatrixNormalisedCounts ==
  (cal_matrix # NoMatrix /\ AllTotalsNonZero) =>
    /\ Fitted
    /\ NumRows(cal_matrix.value) = Pow2(qubits)
    /\ \A prepared \in Labels(qubits) : \A measured \in Labels(qubits) :
         LET e == cal_matrix.value[LabelIndex(measured) + 1][LabelIndex(prepared) + 1]
         IN /\ FEq(e, F(CountIn(cal_results[prepared], measured),
                         SumCounts(cal_results[prepared])))
            /\ FLe(F(0, 1), e) /\ FLe(e, F(1, 1))
    /\ \A j \in 1..Pow2(qubits) : FEq(FSum(Column(cal_matrix.value, j)), F(1, 1))

\* C1 witness: the matrix fitted to the counts cell 4 printed, two of which
\* lack a label
W1_FittedWithAbsentLabel ==
  /\ cal_results = PrintedCounts
  /\ L01 \notin DOMAIN cal_results[L10]
  /\ Fitted

EqualColumns ==
  \E j \in 1..Pow2(qubits) : \E k \in 1..Pow2(qubits) :
    j # k /\ VecEq(Column(cal_matrix.value, j), Column(cal_matrix.value, k))

\* C3: when M is exactly singular, the direct-inverse strategy ends in a
\* SingularMatrix error and returns no vector, while the least-squares
\* strategy on the same M and the same C_noisy returns a corrected vector.
C3_SingularInverseFailsLeastSquaresSucceeds ==
  (Fitted /\ ValidRequest /\ (EqualColumns \/ IsSingular(cal_matrix.value))) =>
    /\ request.strategy = "inverse" =>
         /\ outcome.status = "SingularMatrix" /\ NoVector
         /\ \A r \in CorrectLeastSquares(cal_matrix.value, request.Cnoisy) :
              r.status = "ok" /\ Len(r.counts) = Pow2(qubits)
    /\ request.strategy = "least_squares" =>
         /\ outcome.status = "ok" /\ Len(outcome.counts) = Pow2(qubits)
         /\ CorrectInverse(cal_matrix.value, request.Cnoisy).status = "SingularMatrix"

\* C3 witness: the direct inverse has failed on a matrix with a repeated column
W3_SingularInverseFailed ==
  /\ cal_results = RepeatedCounts /\ Fitted /\ EqualColumns
  /\ request.strategy = "inverse" /\ ValidRequest
  /\ outcome.status = "SingularMatrix"

\* C4 as stated: every call in which the length of C_noisy differs from the
\* number of rows of M ends in a DimensionMismatch error without a vector.
X4_MismatchAlwaysDimensionMismatch ==
  (Fitted /\ Requested /\ ~Matching) =>
    outcome.status = "DimensionMismatch" /\ NoVector

\* C4 (amended): every call in which the length of C_noisy differs from the
\* number of rows of M ends in an error and returns no vector; the error is
\* DimensionMismatch, except that the direct-inverse strategy on a singular M
\* has already failed with SingularMatrix when it inverted M.
C4_MismatchFails ==
  (Fitted /\ Requested /\ ~Matching) =>
    /\ NoVector
    /\ outcome.status =
         IF request.strategy = "inverse" /\ IsSingular(cal_matrix.value)
         THEN "SingularMatrix" ELSE "DimensionMismatch"

\* C4 witness: np.dot has rejected a vector of the wrong length
W4_InverseMismatch ==
  /\ Fitted /\ Requested /\ ~Matching
  /\ request.strategy = "inverse"
  /\ outcome.status = "DimensionMismatch"

\* C5: the builder ends in an InvalidInput error and returns no matrix when
\* a supplied distribution has a shot total of zero or fewer than 2^n
\* distributions are supplied.
C5_BuilderRejectsIncomplete ==
  (/\ cal_matrix # NoMatrix
   /\ \/ \E l \in DOMAIN cal_results : SumCounts(cal_results[l]) = 0
      \/ Cardinality(DOMAIN cal_results) < Pow2(qubits)) =>
    cal_matrix.status = "InvalidInput" /\ cal_matrix.value = <<>>

\* C5 witness: a fit rejected for a distribution without shots, all 2^n
\* distributions being supplied
W5_ZeroTotalRejected ==
  /\ DOMAIN cal_results = Labels(qubits)
  /\ \E l \in DOMAIN cal_results : SumCounts(cal_results[l]) = 0
  /\ cal_matrix.status = "InvalidInput"

ErrorStatus == {"InvalidInput", "DimensionMismatch", "SingularMatrix"}

BuiltMatrices ==
  [g \in 1..MaxBuilds |->
     LET Mg == CalMatrix(CalOfBuild(g), NumQubits)
     IN [i \in 1..Pow2(NumQubits) |-> [j \in 1..Pow2(NumQubits) |-> Entry(g, Mg[i][j])]]]

BuiltMatrix(g) == BuiltMatrices[g]

\* C7: when the matrix is rebuilt while corrections are in flight, the rows a
\* correction has read are rows of one single fully built matrix, the one of
\* the fitter whose filter it took (no entry of another build and no entry
\* not yet written), and the matrix of that fitter is not changed while the
\* correction is using it.
C7_CorrectionsReadOneBuild ==
  \A t \in 1..MaxCorrections :
    corrections[t].pc # "idle" =>
      /\ \E g \in 1..builds :
           /\ corrections[t].captured = BuiltMatrix(g)
           /\ \A i \in 1..Len(corrections[t].read) :
                corrections[t].read[i] = BuiltMatrix(g)[i]
      /\ corrections[t].pc = "apply" =>
           heap[corrections[t].filter] = corrections[t].captured

\* C7 witness: a correction is part way through the matrix of the fitter the
\* name is bound to while the constructor of the next fitter is part way
\* through its own matrix
W7_ReadDuringRebuild ==
  \E t \in 1..MaxCorrections :
    /\ corrections[t].pc = "apply"
    /\ corrections[t].row \in 2..Pow2(NumQubits)
    /\ corrections[t].filter = meas_fitter
    /\ building # NoBuild
    /\ building.column \in 2..Pow2(NumQubits)
    /\ Values(heap[building.object]) # Values(heap[meas_fitter])

\* the calibration counts of the identity noise process
IdentityNoise ==
  /\ DOMAIN cal_results = Labels(qubits)
  /\ \A l \in Labels(qubits) :
       DOMAIN cal_results[l] = {l} /\ cal_results[l][l] > 0

IdentityMatrix(k) ==
  [i \in 1..k |-> [j \in 1..k |-> IF i = j THEN F(1, 1) ELSE F(0, 1)]]

\* C8: for calibration data of the identity noise process the builder's M is
\* the identity matrix, and the correction with it returns C_noisy for every
\* non-negative integer C_noisy of matching length, on both strategies.
C8_IdentityNoise ==
  (IdentityNoise /\ cal_matrix # NoMatrix) =>
    /\ Fitted
    /\ MatEq(cal_matrix.value, IdentityMatrix(Pow2(qubits)))
    /\ ValidRequest =>
         /\ outcome.status = "ok"
         /\ VecEq(outcome.real, request.Cnoisy)
         /\ Integral(request.Cnoisy) =>
              VecEq(IntVec(outcome.counts), request.Cnoisy)

\* C8 witness: a correction of non-zero counts with the identity matrix
W8_IdentityCorrection ==
  /\ IdentityNoise /\ Fitted /\ ValidRequest /\ Integral(request.Cnoisy)
  /\ FSign(FSum(request.Cnoisy)) > 0
  /\ outcome.status = "ok"

\* C9: np.dot(M, Cideal) is the C_noisy that cell 6 prints; the direct
\* inverse applied to the notebook's M and this C_noisy, followed by
\* rounding, returns a vector whose entries are within 1 of 5000, 0, 0, 5000;
\* and every result x of the direct inverse satisfies M x = C_noisy.
C9_InverseSolvesSystem ==
  /\ VecEq(Cnoisy, CnoisyPrinted)
  /\ (Fitted /\ request.strategy = "inverse" /\ outcome.status = "ok") =>
       VecEq(Dot(cal_matrix.value, outcome.real).value, request.Cnoisy)
  /\ (cal_matrix = Ok(M) /\ request = [strategy |-> "inverse", Cnoisy |-> Cnoisy]) =>
       /\ outcome.status = "ok"
       /\ \A i \in 1..4 :
            LET diff == outcome.counts[i] - <<5000, 0, 0, 5000>>[i]
            IN -1 <= diff /\ diff <= 1

\* C9 witness: cells 6 to 8 have run on the notebook's M and C_noisy
W9_NotebookCorrection ==
  /\ cal_matrix = Ok(M)
  /\ request = [strategy |-> "inverse", Cnoisy |-> Cnoisy]
  /\ outcome.status = "ok"
  /\ Len(outcome.counts) = 4

\* C10 as stated: every vector returned after post-processing has only
\* non-negative integer entries, an entry that is negative with a magnitude
\* below 1 being returned as 0.
X10_CountsNeverNegative ==
  (Fitted /\ ValidRequest /\ Integral(request.Cnoisy) /\ outcome.status = "ok") =>
    \A i \in 1..Len(outcome.counts) :
      /\ outcome.counts[i] >= 0
      /\ (FSign(outcome.real[i]) < 0 /\ FCmp(outcome.real[i], F(-1, 1)) > 0) =>
           outcome.counts[i] = 0

\* C10 (amended): every vector returned after post-processing has integer
\* entries, each a nearest integer of the real-valued entry; on the
\* least-squares path they are all non-negative; on the direct-inverse path
\* an entry is negative exactly when the real-valued entry is below -1/2
\* (a negative entry of magnitude up to 1/2 is returned as 0).
C10_CountsAreRounded ==
  (Fitted /\ ValidRequest /\ outcome.status = "ok") =>
    /\ Len(outcome.counts) = Len(outcome.real)
    /\ \A i \in 1..Len(outcome.counts) :
         /\ outcome.counts[i] \in Int
         /\ FLe(FAbs(FSub(outcome.real[i], F(outcome.counts[i], 1))), F(1, 2))
         /\ request.strategy = "least_squares" => outcome.counts[i] >= 0
         /\ request.strategy = "inverse" =>
              (outcome.counts[i] < 0 <=> FCmp(outcome.real[i], F(-1, 2)) < 0)

\* C10 witness: the direct inverse has returned a negative count for valid
\* integer input
W10_NegativeCount ==
  /\ Fitted /\ ValidRequest /\ Integral(request.Cnoisy)
  /\ request.strategy = "inverse" /\ outcome.status = "ok"
  /\ \E i \in 1..Len(outcome.counts) : outcome.counts[i] < 0

\* C11: in the run from top to bottom, the calibration run of the cell
\* commented "Execute the calibration circuits without noise" is executed
\* with no measurement noise in effect, and the calibration matrix that
\* CompleteMeasFitter builds from its results is the identity matrix.
X11_FirstCalibrationIsNoiseless ==
  (reruns = 0 /\ pc = FirstFitCell + 1 /\ raised = NoError) =>
    /\ FEq(env["cal_results"].noise.p, F(0, 1))
    /\ MatEq(env["meas_fitter"].cal_matrix, IdentityMatrix(Pow2(NumQubits)))

\* C12: after any sequence of noise-model changes, calibration builds and
\* noisy runs, every correction uses a calibration matrix built from
\* calibration results executed under the same noise model as the noisy
\* results it corrects, and built under the noise model in effect when the
\* correction is made.
X12_CorrectionUsesCurrentCalibration ==
  env["mitigated_results"] # Unbound =>
    LET m   == env["mitigated_results"]
        fit == m.filter.fitter
    IN /\ FEq(fit.cal_results.noise.p, m.results.noise.p)
       /\ FEq(fit.built_under.p, m.applied_under.p)

\* C12 (amended): every correction uses the matrix fitted to the calibration
\* results of the fitter its filter was taken from; in the run from top to
\* bottom those results and the noisy results were executed under the same
\* noise model, and the matrix was built after the last change of it; in any
\* run, calibration results and noisy results executed under the same binding
\* of noise_model have the same noise.
C12_CorrectionUsesOwnCalibration ==
  env["mitigated_results"] # Unbound =>
    LET m   == env["mitigated_results"]
        fit == m.filter.fitter
    IN /\ MatEq(fit.cal_matrix, CalMatrix(fit.cal_results.counts, NumQubits))
       /\ reruns = 0 =>
            /\ FEq(fit.cal_results.noise.p, m.results.noise.p)
            /\ fit.cal_results.noise.change = m.results.noise.change
            /\ fit.built_under.change = m.applied_under.change
       /\ fit.cal_results.noise.change = m.results.noise.change =>
            FEq(fit.cal_results.noise.p, m.results.noise.p)

\* C12 witness: the run from top to bottom has made its correction
W12_CorrectedTopToBottom ==
  /\ reruns = 0
  /\ raised = NoError
  /\ pc = CorrectionCell + 1
  /\ env["mitigated_results"] # Unbound

\* C13: when the cells are run once each from top to bottom, every name a
\* cell reads is bound, so every cell runs to completion; the final plotting
\* cell finds noisy_counts and mitigated_counts bound.
X13_EveryCellCompletes ==
  reruns = 0 =>
    /\ raised = NoError
    /\ pc = PlotCell => (env["noisy_counts"] # Unbound /\ env["mitigated_counts"] # Unbound)

====
